---- MODULE Spec2Model ----
(***************************************************************************)
(* Model of the precise object scanner of the block-based GC               *)
(* (src/runtime/gc_precise.go): newGCObjectScanner decodes the layout word *)
(* of an object, pointerFree is the skip test, and nextIsPointer           *)
(* classifies one word of the object per call.                            *)
(***************************************************************************)
EXTENDS Integers, Naturals, Sequences, FiniteSets, TLC

VARIABLES
    layoutBits,   \* unsafe.Sizeof(uintptr)*8 of the target
    gcAsserts,    \* build flag of the runtime
    mem,          \* read-only memory holding the external layout record
    layout,       \* the word stored at block.address()
    pc,           \* "new" | "ready" | "panicked"
    panicMsg,     \* message handed to runtimePanic, "" if none
    scanner,      \* the gcObjectScanner struct
    calls,        \* number of nextIsPointer calls made so far
    last,         \* the last nextIsPointer call: its number, word and result
    pfCalled,     \* pointerFree was called
    pfResult      \* what the last pointerFree call returned

vars == <<layoutBits, gcAsserts, mem, layout, pc, panicMsg, scanner, calls,
          last, pfCalled, pfResult>>

----------------------------------------------------------------------------
(* Bounds of the model *)

MaxRaw == 647          \* odd raw layout values are drawn from 1..MaxRaw
MaxExtSize == 9        \* size words of external layout records: 0..MaxExtSize
MaxCalls == 10         \* nextIsPointer calls per scanner

WordWidths == {8, 16, 32, 64}
ExtAddrs == {16, 32}
ByteSamples == {0, 5, 255}
NumBitmapBytes == (MaxCalls \div 8) + 1

----------------------------------------------------------------------------
(* Machine arithmetic *)

Pow2(n) == 2 ^ n
Shr(x, k) == x \div Pow2(k)
Bit(x, i) == Shr(x, i) % 2
WordBytes(bits) == bits \div 8

(* Truncation of x to a uintptr of the given width.  Every value of the    *)
(* model is below 2^31, so only widths below 31 bits can truncate.         *)
WrapWord(x, bits) == IF bits < 31 THEN x % Pow2(bits) ELSE x
FitsWord(x, bits) == WrapWord(x, bits) = x

NilPtr == 0

(* The heap-membership predicate of the allocator: heapStart <= p < heapEnd *)
heapStart == 4096
heapEnd == 8192
isOnHeap(word) == word >= heapStart /\ word < heapEnd

Words == {heapStart - 1, heapStart, heapEnd - 1, heapEnd}

(* Memory: a byte array; a native word is read little-endian. *)
MemAddrs == 0 .. (40 + 8 + NumBitmapBytes)

RECURSIVE LoadWordFrom(_, _, _)
LoadWordFrom(m, addr, n) ==
    IF n = 0 THEN 0 ELSE m[addr] + 256 * LoadWordFrom(m, addr + 1, n - 1)

LoadWord(m, addr, bits) == LoadWordFrom(m, addr, WordBytes(bits))
LoadByte(m, addr) == m[addr]

(* Byte k of the little-endian representation of v (v is below 2^31). *)
ByteOf(v, k) == IF 8 * k < 31 THEN Shr(v, 8 * k) % 256 ELSE 0

(* The image the code generator emits for an external layout record at p: *)
(* one native word holding the size, then the bitmap bytes.               *)
RecordImage(p, bits, dsize, bytes) ==
    [a \in MemAddrs |->
        IF a >= p /\ a < p + WordBytes(bits)
        THEN ByteOf(dsize, a - p)
        ELSE IF a >= p + WordBytes(bits) /\ a < p + WordBytes(bits) + Len(bytes)
        THEN bytes[a - p - WordBytes(bits) + 1]
        ELSE 0]

EmptyMemory == [a \in MemAddrs |-> 0]

----------------------------------------------------------------------------
(* newGCObjectScanner *)

ZeroScanner == [index |-> 0, size |-> 0, bitmap |-> 0, bitmapAddr |-> NilPtr]

NoPanic == ""
HeadPanic == "gc: object scanner must start at head"
WidthPanic == "unknown pointer size"

(* The collector constructs scanners on head blocks only. *)
blockIsHead == TRUE

sizeFieldBits(bits) ==
    CASE bits = 16 -> 4
      [] bits = 32 -> 5
      [] bits = 64 -> 6
      [] OTHER -> 0

widthSupported(bits) == bits \in {16, 32, 64}

(* Variants of the decoder with one statement wrong. *)
unknownLayout_NoBitmap ==
    [ZeroScanner EXCEPT !.size = 1]

unknownLayout_NoSize ==
    [ZeroScanner EXCEPT !.bitmap = 1]

unknownLayout ==
    [ZeroScanner EXCEPT !.size = 1, !.bitmap = 1]

inlineLayout_ShiftBySizeBits(raw, bits) ==
    [ZeroScanner EXCEPT
        !.size = Shr(raw, 1) % Pow2(sizeFieldBits(bits)),
        !.bitmap = Shr(raw, sizeFieldBits(bits))]

inlineLayout(raw, bits) ==
    [ZeroScanner EXCEPT
        !.size = Shr(raw, 1) % Pow2(sizeFieldBits(bits)),
        !.bitmap = Shr(raw, 1 + sizeFieldBits(bits))]

externalLayout_NoOffset(raw, bits, m) ==
    [ZeroScanner EXCEPT
        !.size = LoadWord(m, raw, bits),
        !.bitmapAddr = raw]

externalLayout(raw, bits, m) ==
    [ZeroScanner EXCEPT
        !.size = LoadWord(m, raw, bits),
        !.bitmapAddr = raw + WordBytes(bits)]

(* Variant that checks the word width before looking at the layout. *)
constructorPanic_WidthOnly(raw, bits, asserts) ==
    IF asserts /\ ~blockIsHead THEN HeadPanic
    ELSE IF ~widthSupported(bits) THEN WidthPanic
    ELSE NoPanic

(* The panic raised by newGCObjectScanner, NoPanic if it returns. *)
constructorPanic(raw, bits, asserts) ==
    IF asserts /\ ~blockIsHead THEN HeadPanic
    ELSE IF raw # 0 /\ raw % 2 # 0 /\ ~widthSupported(bits) THEN WidthPanic
    ELSE NoPanic

newGCObjectScanner(raw, bits, m) ==
    IF raw = 0 THEN unknownLayout
    ELSE IF raw % 2 # 0 THEN inlineLayout(raw, bits)
    ELSE externalLayout(raw, bits, m)

----------------------------------------------------------------------------
(* pointerFree *)

pointerFree_IgnoreExternal(s) == s.bitmap = 0

pointerFree_IgnoreBitmap(s) == s.bitmapAddr = NilPtr

pointerFree(s) ==
    IF s.bitmapAddr # NilPtr THEN FALSE
    ELSE s.bitmap = 0

----------------------------------------------------------------------------
(* nextIsPointer *)

(* Variant that tests for the wrap before incrementing. *)
advanceIndex_WrapBeforeIncrement(s, bits) ==
    IF s.index = s.size THEN 0 ELSE WrapWord(s.index + 1, bits)

advanceIndex(s, bits) ==
    LET next == WrapWord(s.index + 1, bits)
    IN  IF next = s.size THEN 0 ELSE next

bitmapSaysPointer(s, m, index) ==
    IF s.bitmapAddr # NilPtr
    THEN Bit(LoadByte(m, s.bitmapAddr + (index \div 8)), index % 8) # 0
    ELSE Bit(s.bitmap, index) # 0

(* Variant that advances the cursor only after the heap check passed. *)
nextIsPointer_AdvanceOnHeapOnly(s, m, bits, word) ==
    IF ~isOnHeap(word) THEN [scanner |-> s, result |-> FALSE]
    ELSE [scanner |-> [s EXCEPT !.index = advanceIndex(s, bits)],
          result  |-> bitmapSaysPointer(s, m, s.index)]

(* Variant without the heap check. *)
nextIsPointer_NoHeapCheck(s, m, bits, word) ==
    [scanner |-> [s EXCEPT !.index = advanceIndex(s, bits)],
     result  |-> bitmapSaysPointer(s, m, s.index)]

nextIsPointer(s, m, bits, word) ==
    LET index == s.index
    IN  [scanner |-> [s EXCEPT !.index = advanceIndex(s, bits)],
         result  |-> IF ~isOnHeap(word) THEN FALSE
                     ELSE bitmapSaysPointer(s, m, index)]

----------------------------------------------------------------------------
(* State machine *)

NoCall == [n |-> 0, word |-> 0, made |-> FALSE, result |-> FALSE]

InitCommon ==
    /\ layoutBits \in WordWidths
    /\ gcAsserts \in BOOLEAN
    /\ pc = "new"
    /\ panicMsg = NoPanic
    /\ scanner = ZeroScanner
    /\ calls = 0
    /\ last = NoCall
    /\ pfCalled = FALSE
    /\ pfResult = FALSE

InitInline ==
    /\ InitCommon
    /\ mem = EmptyMemory
    /\ layout \in {v \in 0 .. MaxRaw : (v = 0 \/ v % 2 = 1) /\ FitsWord(v, layoutBits)}

InitExternal ==
    /\ InitCommon
    /\ layout \in ExtAddrs
    /\ \E dsize \in 0 .. MaxExtSize :
       \E bytes \in [1 .. NumBitmapBytes -> ByteSamples] :
          mem = RecordImage(layout, layoutBits, dsize, bytes)

Init == InitInline \/ InitExternal

Construct ==
    /\ pc = "new"
    /\ LET msg == constructorPanic(layout, layoutBits, gcAsserts)
       IN  /\ panicMsg' = msg
           /\ IF msg # NoPanic
              THEN pc' = "panicked" /\ UNCHANGED scanner
              ELSE /\ pc' = "ready"
                   /\ scanner' = newGCObjectScanner(layout, layoutBits, mem)
    /\ UNCHANGED <<layoutBits, gcAsserts, mem, layout, calls, last, pfCalled,
                   pfResult>>

CallPointerFree ==
    /\ pc = "ready"
    /\ pfCalled' = TRUE
    /\ pfResult' = pointerFree(scanner)
    /\ UNCHANGED <<layoutBits, gcAsserts, mem, layout, pc, panicMsg, scanner,
                   calls, last>>

CallNextIsPointer ==
    /\ pc = "ready"
    /\ calls < MaxCalls
    /\ \E word \in Words :
        LET r == nextIsPointer(scanner, mem, layoutBits, word)
        IN  /\ scanner' = r.scanner
            /\ last' = [n |-> calls, word |-> word, made |-> TRUE,
                        result |-> r.result]
    /\ calls' = calls + 1
    /\ UNCHANGED <<layoutBits, gcAsserts, mem, layout, pc, panicMsg, pfCalled,
                   pfResult>>

Next == Construct \/ CallPointerFree \/ CallNextIsPointer

Spec == Init /\ [][Next]_vars

----------------------------------------------------------------------------
(* Properties *)

Ready == pc = "ready"
IsInline == layout % 2 = 1
IsExternal == layout # 0 /\ layout % 2 = 0
InHeapCall == last.made /\ isOnHeap(last.word)
OutOfHeapCall == last.made /\ ~isOnHeap(last.word)

(* The size-field width the layout format assigns to a native word width. *)
FormatSizeBits == CASE layoutBits = 16 -> 4 [] layoutBits = 32 -> 5
                    [] layoutBits = 64 -> 6 [] OTHER -> 0

(* The bitmap byte of the external record that holds bit i. *)
RecordBit(i) == Bit(mem[layout + WordBytes(layoutBits) + (i \div 8)], i % 8)

(* C1: for an inline layout, call i (counting every call, whatever the    *)
(* heap membership of the earlier words) with an in-heap word returns bit *)
(* i of the decoded bitmap for i < size, and the results repeat with      *)
(* period size; raw value 647 on 64 bits gives true, false, true, ...     *)
C1_InlineBitSequence ==
    (Ready /\ IsInline /\ InHeapCall) =>
        /\ (last.n < scanner.size \/ scanner.size = 0) =>
               (last.result <=> Bit(scanner.bitmap, last.n) = 1)
        /\ scanner.size >= 1 =>
               (last.result <=> Bit(scanner.bitmap, last.n % scanner.size) = 1)
        /\ (layoutBits = 64 /\ layout = 647) =>
               (last.result <=> (last.n % 3) \in {0, 2})

C1_Witness ==
    /\ Ready /\ layoutBits = 64 /\ layout = 647
    /\ InHeapCall /\ last.n = 3 /\ last.result

(* C2: for an external layout at address p the decoded size is the word   *)
(* stored at p and call i with an in-heap word returns bit (i mod 8) of   *)
(* the byte at p + word_size + (i div 8) for i < size, wrapping after     *)
(* size calls; size 8 with byte 0b00000101 gives T,F,T,F,F,F,F,F,T,...     *)
C2_ExternalBitSequence ==
    (Ready /\ IsExternal) =>
        /\ scanner.size = LoadWord(mem, layout, layoutBits)
        /\ InHeapCall =>
            /\ (last.n < scanner.size \/ scanner.size = 0) =>
                   (last.result <=> RecordBit(last.n) = 1)
            /\ scanner.size >= 1 =>
                   (last.result <=> RecordBit(last.n % scanner.size) = 1)
            /\ (mem[layout] = 8 /\ mem[layout + WordBytes(layoutBits)] = 5) =>
                   (last.result <=> (last.n % 8) \in {0, 2})

C2_Witness ==
    /\ Ready /\ IsExternal /\ scanner.size = 8
    /\ mem[layout + WordBytes(layoutBits)] = 5
    /\ InHeapCall /\ last.n = 8 /\ last.result

(* C3: for raw layout 0 the decoded size is 1 and every call returns true *)
(* for an in-heap word and false for an out-of-heap word, whatever calls  *)
(* came before.                                                           *)
C3_UnknownLayout ==
    (Ready /\ layout = 0) =>
        /\ scanner.size = 1
        /\ last.made => (last.result <=> isOnHeap(last.word))

C3_Witness ==
    Ready /\ layout = 0 /\ InHeapCall /\ last.n >= 2 /\ last.result

(* C4: nextIsPointer returns false whenever isOnHeap fails for the word,  *)
(* for every layout kind, bitmap content and cursor position.             *)
C4_ConservativeFilter ==
    OutOfHeapCall => ~last.result

C4_Witness ==
    /\ Ready /\ IsExternal /\ OutOfHeapCall /\ last.n >= 1
    /\ RecordBit(last.n) = 1 /\ ~last.result

(* C5 as stated: the decoded size is at least 1 for every raw value.      *)
C5_SizeAtLeastOne ==
    Ready => scanner.size >= 1

(* C5 amended: the decoded size is 1 for raw value 0; for an odd value it *)
(* is the size field, at least 1 exactly when the field is not all zero;  *)
(* for an even nonzero value it is the stored word, at least 1 exactly    *)
(* when that word is nonzero; calls never change it.                      *)
C5_SizeAtLeastOneWhenEncoded ==
    Ready =>
        /\ layout = 0 => scanner.size = 1
        /\ IsInline =>
              (scanner.size >= 1 <=>
                  (layout \div 2) % Pow2(FormatSizeBits) # 0)
        /\ IsExternal =>
              (scanner.size >= 1 <=> LoadWord(mem, layout, layoutBits) # 0)

C5_Witness ==
    /\ Ready /\ IsInline /\ (layout \div 2) % Pow2(FormatSizeBits) # 0
    /\ scanner.size >= 1 /\ calls >= 2

(* C6 as stated: after any sequence of calls the cursor is below size.    *)
C6_CursorBelowSize ==
    (Ready /\ calls >= 1) => scanner.index < scanner.size

(* C6 amended: on a scanner whose decoded size is at least 1 the cursor   *)
(* starts at 0, every call sets it to (index + 1) mod size, it stays      *)
(* below size and is back at 0 after exactly size calls; with a decoded   *)
(* size of 0 every call increments it.                                    *)
C6_ModularCursor ==
    Ready =>
        IF scanner.size >= 1
        THEN /\ scanner.index = calls % scanner.size
             /\ scanner.index < scanner.size
             /\ calls = scanner.size => scanner.index = 0
        ELSE scanner.index = calls

C6_Witness ==
    Ready /\ scanner.size >= 2 /\ calls = scanner.size /\ scanner.index = 0

(* C7: an odd raw value v on a 16, 32 or 64 bit word with size-field      *)
(* width s = 4, 5, 6 decodes to size = (v >> 1) & (2^s - 1) and           *)
(* bitmap = v >> (1 + s) with no external address, i.e.                   *)
(* v = 1 + 2*size + 2^(1+s)*bitmap with size < 2^s; 647 on 64 bits        *)
(* decodes to size 3 and bitmap 0b101.                                    *)
C7_InlineDecode ==
    (Ready /\ IsInline) =>
        /\ layoutBits \in {16, 32, 64}
        /\ scanner.size < Pow2(FormatSizeBits)
        /\ layout = 1 + 2 * scanner.size
                      + Pow2(1 + FormatSizeBits) * scanner.bitmap
        /\ scanner.bitmapAddr = NilPtr
        /\ (layoutBits = 64 /\ layout = 647) =>
               (scanner.size = 3 /\ scanner.bitmap = 5)

C7_Witness ==
    /\ Ready /\ layoutBits = 64 /\ layout = 647
    /\ scanner.size = 3 /\ scanner.bitmap = 5

(* C8: pointerFree returns true iff there is no external descriptor and   *)
(* the decoded bitmap is zero; it returns false for every external layout *)
(* whatever the bitmap bytes hold, and false for raw value 0.             *)
C8_PointerFree ==
    pfCalled =>
        /\ pfResult <=> (scanner.bitmapAddr = NilPtr /\ scanner.bitmap = 0)
        /\ IsExternal => ~pfResult
        /\ layout = 0 => ~pfResult
        /\ IsInline =>
              (pfResult <=> layout \div Pow2(1 + FormatSizeBits) = 0)

C8_Witness ==
    /\ pfCalled /\ IsExternal /\ ~pfResult
    /\ \A k \in 0 .. NumBitmapBytes - 1 :
          mem[layout + WordBytes(layoutBits) + k] = 0

(* C9 as stated: on a word width other than 16, 32, 64 decoding ends in   *)
(* the "unknown pointer size" abort whatever the raw layout value.        *)
C9_AbortOnWidthAlone ==
    (pc # "new" /\ layoutBits \notin {16, 32, 64}) =>
        (pc = "panicked" /\ panicMsg = WidthPanic)

(* C9 amended: decoding ends in the "unknown pointer size" abort, and     *)
(* yields no scanner, exactly when the word width is not 16, 32 or 64 and *)
(* the raw layout value is odd; raw value 0 and even values decode on     *)
(* every width, and on 16, 32, 64 bits the abort is never raised.         *)
C9_AbortOnInlineWidth ==
    pc # "new" =>
        /\ (pc = "panicked" /\ panicMsg = WidthPanic)
              <=> (layoutBits \notin {16, 32, 64} /\ IsInline)
        /\ pc = "panicked" => (scanner = ZeroScanner /\ calls = 0 /\ ~pfCalled)
        /\ Ready => panicMsg = NoPanic

C9_Witness ==
    pc = "panicked" /\ panicMsg = WidthPanic /\ layoutBits = 8 /\ IsInline

(* C10: if pointerFree returns true for a scanner, every nextIsPointer    *)
(* call on it returns false, for any word and any number of calls.        *)
C10_SkipIsSound ==
    (pfCalled /\ pfResult /\ last.made) => ~last.result

C10_Witness ==
    /\ pfCalled /\ pfResult /\ InHeapCall /\ last.n >= 2 /\ ~last.result
    /\ scanner.size >= 1

====
